---- MODULE Spec2Model ----
(***************************************************************************)
(* GeneratorExt: the exhaustion-guarded wrapper Callable around a          *)
(* generator, its two step views (Futerator::resume and                    *)
(* Senerator::resume_with_yield), the chain combinator, the delegation    *)
(* adapters move_into, make_new and borrow_mut, take(), the two iterator   *)
(* adapters (iter_yielded, iter_all) and the Future and Stream of the      *)
(* feature "extfutures".                                                   *)
(*                                                                         *)
(* A generator is a record; resuming it is the operator GenResume.  A      *)
(* wrapper is a record whose field slot is Callable.0 (<<>> for None,      *)
(* <<g>> for Some(g)); its other fields are history: log, the results its  *)
(* step operations returned (those that were not None), last, what the     *)
(* latest step operation returned, adv, how often a step reached the       *)
(* primitive's resume(), and spent, the generator as it was dropped when   *)
(* it completed.                                                           *)
(***************************************************************************)
EXTENDS Integers, Sequences, FiniteSets, TLC

\* ------------------------------------------------------------------ bounds
MaxYields == 2     \* the enumerated generators yield at most this often
MaxChain  == 2     \* chain is applied at most this often (test_chain: twice)
MaxErased == 1     \* resume() calls that return Yield(()), per wrapper

\* ------------------------------------------------------------------ values
\* A value with its Rust type: 99u8 and 99 as char ('c') differ.
Val(t, n) == [ty |-> t, n |-> n]
I32(n)  == Val("i32", n)
U8(n)   == Val("u8", n)
Char(n) == Val("char", n)

\* GeneratorState::Yielded(y) / GeneratorState::Complete(r), and a panic
Yielded(y)  == <<"Yielded", y>>
Complete(r) == <<"Complete", r>>
Panic       == <<"Panic">>

\* State::Yield(y), State::Yield(()), State::Return(r); Option::None
StYield(y)  == <<"Yield", y>>
StYieldUnit == <<"Yield">>
StReturn(r) == <<"Return", r>>
None        == <<"None">>

\* Option<Item> of the iterators
SomeItem(v) == <<"Some", v>>
NoItem      == <<"NoItem">>

\* What resuming a generator after its completion may do: it is undefined
\* behaviour of the unsafe resume(); a generator literal panics.
UBOutcomes == {Panic, Yielded(I32(0)), Complete(I32(0))}

\* -------------------------------------------------------------- generators
\* A generator literal that yields ys in order and then returns ret.
Prim(ys, ret) ==
  [kind |-> "prim", ys |-> ys, ret |-> ret, pos |-> 0, done |-> FALSE, ub |-> FALSE]

\* char_yielder wrapped by yield_from! and `return 99` of
\* test_generator_into_iterator: yields 0..5 as char, returns 99u8.
CharGen == Prim([i \in 1..5 |-> Char(i - 1)], U8(99))

\* test_chain's first generator: yield 1; yield 2; return 3.
ChainTestGen == Prim(<<I32(1), I32(2)>>, I32(3))

\* make_new's generator: for i in 0..10 { yield i }; return 2.
RangeGen == Prim([i \in 1..10 |-> I32(i - 1)], I32(2))

\* The closures handed to chain: test_chain's two, and one whose generator
\* never yields.
Transforms == {"double", "tenfold", "succ"}

ApplyTransform(f, input) ==
  CASE f = "double"  -> Prim(<<I32(input.n * 2)>>, input)
    [] f = "tenfold" -> Prim(<<I32(input.n * 10)>>, I32(input.n * 10 - 1))
    [] f = "succ"    -> Prim(<<>>, I32(input.n + 1))

\* The generator chain builds: `generator` is a, the closure is f, and
\* provided_gen is b once the closure has run.  calls and arg are history:
\* how often the closure was invoked, and with what.
ChainGen(a, f) ==
  [kind |-> "chain", a |-> a, f |-> f, b |-> <<>>, pc |-> "A",
   calls |-> 0, arg |-> <<>>, ub |-> FALSE]

\* The generator make_new's test builds inside borrow_mut: it sums the
\* first k items of gen.iter_all(), yields 0..sum and returns 0.
SumGen(k) ==
  [kind |-> "sum", k |-> k, pc |-> "start", sum |-> 0, i |-> 0, ub |-> FALSE]

\* A wrapper: Callable(Option<G>) with its history.
NewCallable(g) == [slot |-> <<g>>, log |-> <<>>, adv |-> 0, last |-> <<>>, spent |-> <<>>]

\* Callable::new for a wrapper that continues the history of the one it
\* was built from (chain consumes self).
NewCallableFrom(g, w) ==
  [slot |-> <<g>>, log |-> w.log, adv |-> w.adv, last |-> <<>>, spent |-> <<>>]

\* No wrapper is borrowed: the environment of a generator that captures none.
NoEnv == [slot |-> <<>>, log |-> <<>>, adv |-> 0, last |-> <<>>, spent |-> <<>>]

\* Faulty variant of ConvertInto: the final value is passed on unconverted.
ConvertInto_Identity(v, yty) == v

\* R: Into<Y>: From<u8> for char and the reflexive From<T> for T.
ConvertInto(v, yty) == Val(yty, v.n)

\* impl Into<Option<Y>> for State<Y, R>
StateInto(state, yty) ==
  IF state[1] = "Yield" THEN SomeItem(state[2])
  ELSE SomeItem(ConvertInto(state[2], yty))

\* F(v), with v evaluated once however often F uses it
Bind(v, F(_)) == CHOOSE y \in {F(x) : x \in {v}} : TRUE

RECURSIVE GenResume(_, _, _)
RECURSIVE CallableResumeWithYield(_, _, _)
RECURSIVE TakeSum(_, _, _, _)

\* Faulty variant of Callable::resume_with_yield: self.take() is left out,
\* so the completed generator stays in the slot.
CallableResumeWithYield_NoTake(w, env, ub) ==
  IF w.slot = <<>>
  THEN [w |-> [w EXCEPT !.last = None], ret |-> None, env |-> env]
  ELSE Bind(GenResume(w.slot[1], env, ub), LAMBDA r :
         CASE r.st[1] = "Yielded" ->
                [w |-> [w EXCEPT !.slot = <<r.g>>, !.log = Append(@, StYield(r.st[2])),
                                 !.adv = @ + 1, !.last = StYield(r.st[2])],
                 ret |-> StYield(r.st[2]), env |-> r.env]
           [] r.st[1] = "Complete" ->
                [w |-> [w EXCEPT !.slot = <<r.g>>, !.log = Append(@, StReturn(r.st[2])),
                                 !.adv = @ + 1, !.last = StReturn(r.st[2])],
                 ret |-> StReturn(r.st[2]), env |-> r.env]
           [] OTHER ->
                [w |-> [w EXCEPT !.slot = <<r.g>>, !.adv = @ + 1, !.last = Panic],
                 ret |-> Panic, env |-> r.env])

\* Faulty variant of Callable::resume_with_yield: the generator is taken
\* out of the slot before it is resumed and not put back.
CallableResumeWithYield_TakeFirst(w, env, ub) ==
  IF w.slot = <<>>
  THEN [w |-> [w EXCEPT !.last = None], ret |-> None, env |-> env]
  ELSE Bind(GenResume(w.slot[1], env, ub), LAMBDA r :
         CASE r.st[1] = "Yielded" ->
                [w |-> [w EXCEPT !.slot = <<>>, !.log = Append(@, StYield(r.st[2])),
                                 !.adv = @ + 1, !.last = StYield(r.st[2])],
                 ret |-> StYield(r.st[2]), env |-> r.env]
           [] r.st[1] = "Complete" ->
                [w |-> [w EXCEPT !.slot = <<>>, !.log = Append(@, StReturn(r.st[2])),
                                 !.adv = @ + 1, !.last = StReturn(r.st[2]),
                                 !.spent = <<r.g>>],
                 ret |-> StReturn(r.st[2]), env |-> r.env]
           [] OTHER ->
                [w |-> [w EXCEPT !.slot = <<>>, !.adv = @ + 1, !.last = Panic],
                 ret |-> Panic, env |-> r.env])

\* return_yielded! inside Callable::resume_with_yield.  w is the wrapper,
\* env the wrapper its generator borrows, ub what undefined behaviour does.
CallableResumeWithYield(w, env, ub) ==
  IF w.slot = <<>>
  THEN [w |-> [w EXCEPT !.last = None], ret |-> None, env |-> env]
  ELSE Bind(GenResume(w.slot[1], env, ub), LAMBDA r :
         CASE r.st[1] = "Yielded" ->
                [w |-> [w EXCEPT !.slot = <<r.g>>, !.log = Append(@, StYield(r.st[2])),
                                 !.adv = @ + 1, !.last = StYield(r.st[2])],
                 ret |-> StYield(r.st[2]), env |-> r.env]
           [] r.st[1] = "Complete" ->
                [w |-> [w EXCEPT !.slot = <<>>, !.log = Append(@, StReturn(r.st[2])),
                                 !.adv = @ + 1, !.last = StReturn(r.st[2]),
                                 !.spent = <<r.g>>],
                 ret |-> StReturn(r.st[2]), env |-> r.env]
           [] OTHER ->
                [w |-> [w EXCEPT !.slot = <<r.g>>, !.adv = @ + 1, !.last = Panic],
                 ret |-> Panic, env |-> r.env])

\* Faulty variant of Callable::resume: self.take() is left out.
CallableResume_NoTake(w, env, ub) ==
  IF w.slot = <<>>
  THEN [w |-> [w EXCEPT !.last = None], ret |-> None, env |-> env]
  ELSE Bind(GenResume(w.slot[1], env, ub), LAMBDA r :
         CASE r.st[1] = "Yielded" ->
                [w |-> [w EXCEPT !.slot = <<r.g>>, !.log = Append(@, StYieldUnit),
                                 !.adv = @ + 1, !.last = StYieldUnit],
                 ret |-> StYieldUnit, env |-> r.env]
           [] r.st[1] = "Complete" ->
                [w |-> [w EXCEPT !.slot = <<r.g>>, !.log = Append(@, StReturn(r.st[2])),
                                 !.adv = @ + 1, !.last = StReturn(r.st[2])],
                 ret |-> StReturn(r.st[2]), env |-> r.env]
           [] OTHER ->
                [w |-> [w EXCEPT !.slot = <<r.g>>, !.adv = @ + 1, !.last = Panic],
                 ret |-> Panic, env |-> r.env])

\* Faulty variant of Callable::resume: the final value is taken with the
\* generator and None is returned in its place.
CallableResume_DropsFinal(w, env, ub) ==
  IF w.slot = <<>>
  THEN [w |-> [w EXCEPT !.last = None], ret |-> None, env |-> env]
  ELSE Bind(GenResume(w.slot[1], env, ub), LAMBDA r :
         CASE r.st[1] = "Yielded" ->
                [w |-> [w EXCEPT !.slot = <<r.g>>, !.log = Append(@, StYieldUnit),
                                 !.adv = @ + 1, !.last = StYieldUnit],
                 ret |-> StYieldUnit, env |-> r.env]
           [] r.st[1] = "Complete" ->
                [w |-> [w EXCEPT !.slot = <<>>, !.adv = @ + 1, !.last = None,
                                 !.spent = <<r.g>>],
                 ret |-> None, env |-> r.env]
           [] OTHER ->
                [w |-> [w EXCEPT !.slot = <<r.g>>, !.adv = @ + 1, !.last = Panic],
                 ret |-> Panic, env |-> r.env])

\* Faulty variant of Callable::resume: a yield is reported but the
\* generator in the slot is left where it was.
CallableResume_Peek(w, env, ub) ==
  IF w.slot = <<>>
  THEN [w |-> [w EXCEPT !.last = None], ret |-> None, env |-> env]
  ELSE Bind(GenResume(w.slot[1], env, ub), LAMBDA r :
         CASE r.st[1] = "Yielded" ->
                [w |-> [w EXCEPT !.log = Append(@, StYieldUnit),
                                 !.adv = @ + 1, !.last = StYieldUnit],
                 ret |-> StYieldUnit, env |-> r.env]
           [] r.st[1] = "Complete" ->
                [w |-> [w EXCEPT !.slot = <<>>, !.log = Append(@, StReturn(r.st[2])),
                                 !.adv = @ + 1, !.last = StReturn(r.st[2]),
                                 !.spent = <<r.g>>],
                 ret |-> StReturn(r.st[2]), env |-> r.env]
           [] OTHER ->
                [w |-> [w EXCEPT !.slot = <<r.g>>, !.adv = @ + 1, !.last = Panic],
                 ret |-> Panic, env |-> r.env])

\* return_from_yield! inside Callable::resume: the payload of a yield is
\* erased to ().
CallableResume(w, env, ub) ==
  IF w.slot = <<>>
  THEN [w |-> [w EXCEPT !.last = None], ret |-> None, env |-> env]
  ELSE Bind(GenResume(w.slot[1], env, ub), LAMBDA r :
         CASE r.st[1] = "Yielded" ->
                [w |-> [w EXCEPT !.slot = <<r.g>>, !.log = Append(@, StYieldUnit),
                                 !.adv = @ + 1, !.last = StYieldUnit],
                 ret |-> StYieldUnit, env |-> r.env]
           [] r.st[1] = "Complete" ->
                [w |-> [w EXCEPT !.slot = <<>>, !.log = Append(@, StReturn(r.st[2])),
                                 !.adv = @ + 1, !.last = StReturn(r.st[2]),
                                 !.spent = <<r.g>>],
                 ret |-> StReturn(r.st[2]), env |-> r.env]
           [] OTHER ->
                [w |-> [w EXCEPT !.slot = <<r.g>>, !.adv = @ + 1, !.last = Panic],
                 ret |-> Panic, env |-> r.env])

\* Faulty variant of resume_with_yield for &mut G: the wrapper is stepped
\* twice and the first result is lost.
RefResumeWithYield_Twice(w, env, ub) ==
  Bind(CallableResumeWithYield(w, env, ub), LAMBDA r :
    CallableResumeWithYield(r.w, r.env, ub))

\* Faulty variant of resume_with_yield for &mut G: a copy of the wrapper
\* is stepped, the wrapper behind the reference stays as it was.
RefResumeWithYield_OnCopy(w, env, ub) ==
  Bind(CallableResumeWithYield(w, env, ub), LAMBDA r :
    [w |-> w, ret |-> r.ret, env |-> env])

\* impl Futerator for &mut G and impl Senerator for &mut G
RefResume(w, env, ub) == CallableResume(w, env, ub)

RefResumeWithYield(w, env, ub) == CallableResumeWithYield(w, env, ub)

\* Faulty variant of YieldIterator::next: the final value is returned too.
YieldIteratorNext_EmitsReturn(w, env, ub, byRef) ==
  Bind(IF byRef THEN RefResumeWithYield(w, env, ub)
       ELSE CallableResumeWithYield(w, env, ub), LAMBDA r :
    [w |-> r.w, env |-> r.env,
     item |-> CASE r.ret[1] \in {"Yield", "Return"} -> SomeItem(r.ret[2])
                [] r.ret[1] = "Panic" -> Panic
                [] OTHER -> NoItem])

\* YieldIterator::next; byRef: the iterator holds &mut Callable, so that
\* self.0.resume_with_yield() is the one of &mut G.
YieldIteratorNext(w, env, ub, byRef) ==
  Bind(IF byRef THEN RefResumeWithYield(w, env, ub)
       ELSE CallableResumeWithYield(w, env, ub), LAMBDA r :
    [w |-> r.w, env |-> r.env,
     item |-> CASE r.ret[1] = "Yield" -> SomeItem(r.ret[2])
                [] r.ret[1] = "Panic" -> Panic
                [] OTHER -> NoItem])

\* Faulty variant of ReturnIterator::next: the wrapper is stepped once
\* more than asked, to have the next item ready, and that result is lost.
ReturnIteratorNext_Prefetch(w, env, ub, byRef, yty) ==
  Bind(IF byRef THEN RefResumeWithYield(w, env, ub)
       ELSE CallableResumeWithYield(w, env, ub), LAMBDA r :
    Bind(CallableResumeWithYield(r.w, r.env, ub), LAMBDA p :
      [w |-> p.w, env |-> p.env,
       item |-> CASE r.ret[1] \in {"Yield", "Return"} -> StateInto(r.ret, yty)
                  [] r.ret[1] = "Panic" -> Panic
                  [] OTHER -> NoItem]))

\* ReturnIterator::next; yty is the yield type the final value converts into.
ReturnIteratorNext(w, env, ub, byRef, yty) ==
  Bind(IF byRef THEN RefResumeWithYield(w, env, ub)
       ELSE CallableResumeWithYield(w, env, ub), LAMBDA r :
    [w |-> r.w, env |-> r.env,
     item |-> CASE r.ret[1] \in {"Yield", "Return"} -> StateInto(r.ret, yty)
                [] r.ret[1] = "Panic" -> Panic
                [] OTHER -> NoItem])

\* Faulty variant of take(n).sum(): the count is tested after the inner
\* next() instead of before it, so one more item is pulled and dropped.
RECURSIVE TakeSum_Overrun(_, _, _, _)
TakeSum_Overrun(w, n, acc, ub) ==
  Bind(ReturnIteratorNext(w, NoEnv, ub, TRUE, "i32"), LAMBDA s :
    IF n = 0 THEN [w |-> s.w, sum |-> acc, panic |-> s.item[1] = "Panic"]
    ELSE CASE s.item[1] = "Some" -> TakeSum_Overrun(s.w, n - 1, acc + s.item[2].n, ub)
           [] s.item[1] = "Panic" -> [w |-> s.w, sum |-> acc, panic |-> TRUE]
           [] OTHER -> [w |-> s.w, sum |-> acc, panic |-> FALSE])

\* gen.iter_all().take(n).sum() over the borrowed wrapper w (gen is a
\* &mut Callable): Take calls next only while n /= 0, sum stops at the
\* first None.
TakeSum(w, n, acc, ub) ==
  IF n = 0 THEN [w |-> w, sum |-> acc, panic |-> FALSE]
  ELSE Bind(ReturnIteratorNext(w, NoEnv, ub, TRUE, "i32"), LAMBDA s :
         CASE s.item[1] = "Some" -> TakeSum(s.w, n - 1, acc + s.item[2].n, ub)
           [] s.item[1] = "Panic" -> [w |-> s.w, sum |-> acc, panic |-> TRUE]
           [] OTHER -> [w |-> s.w, sum |-> acc, panic |-> FALSE])

\* Faulty variant of the chaining generator: it returns A's final value
\* without running provided_gen.
ChainEnterB_SkipB(g, a, ret, env, ub) ==
  [g |-> [g EXCEPT !.a = a, !.calls = @ + 1, !.arg = <<ret>>, !.pc = "done"],
   st |-> Complete(ret), env |-> env]

\* Faulty variant of the chaining generator: the closure is run once for
\* the binding and once more for the generator that is resumed.
ChainEnterB_CallsTwice(g, a, ret, env, ub) ==
  Bind(GenResume(ApplyTransform(g.f, ret), env, ub), LAMBDA rb :
    [g |-> [g EXCEPT !.a = a, !.b = <<rb.g>>, !.calls = @ + 2, !.arg = <<ret>>,
                     !.pc = IF rb.st[1] = "Complete" THEN "done" ELSE "B"],
     st |-> rb.st, env |-> rb.env])

\* Faulty variant of the chaining generator: A's final value is yielded as
\* an item of its own, provided_gen is first resumed in the step after.
ChainEnterB_OwnStep(g, a, ret, env, ub) ==
  [g |-> [g EXCEPT !.a = a, !.b = <<ApplyTransform(g.f, ret)>>, !.calls = @ + 1,
                   !.arg = <<ret>>, !.pc = "B"],
   st |-> Yielded(ret), env |-> env]

\* The chaining generator's `let mut provided_gen = g(ret);
\* return yield_from!(provided_gen)`, from provided_gen's first resume on.
ChainEnterB(g, a, ret, env, ub) ==
  Bind(GenResume(ApplyTransform(g.f, ret), env, ub), LAMBDA rb :
    [g |-> [g EXCEPT !.a = a, !.b = <<rb.g>>, !.calls = @ + 1, !.arg = <<ret>>,
                     !.pc = IF rb.st[1] = "Complete" THEN "done" ELSE "B"],
     st |-> rb.st, env |-> rb.env])

\* Generator::resume of the three kinds of generator.  The result is the
\* generator afterwards, the GeneratorState (or a panic) and the borrowed
\* wrapper afterwards.
GenResume(g, env, ub) ==
  CASE g.kind = "prim" ->
         IF g.done THEN [g |-> [g EXCEPT !.ub = TRUE], st |-> ub, env |-> env]
         ELSE IF g.pos < Len(g.ys)
         THEN [g |-> [g EXCEPT !.pos = @ + 1], st |-> Yielded(g.ys[g.pos + 1]), env |-> env]
         ELSE [g |-> [g EXCEPT !.done = TRUE], st |-> Complete(g.ret), env |-> env]
    [] g.kind = "chain" ->
         CASE g.pc = "A" ->
                Bind(GenResume(g.a, env, ub), LAMBDA ra :
                  CASE ra.st[1] = "Yielded" ->
                         [g |-> [g EXCEPT !.a = ra.g], st |-> ra.st, env |-> ra.env]
                    [] ra.st[1] = "Complete" ->
                         ChainEnterB(g, ra.g, ra.st[2], ra.env, ub)
                    [] OTHER ->
                         [g |-> [g EXCEPT !.a = ra.g], st |-> Panic, env |-> ra.env])
           [] g.pc = "B" ->
                Bind(GenResume(g.b[1], env, ub), LAMBDA rb :
                  [g |-> [g EXCEPT !.b = <<rb.g>>,
                                   !.pc = IF rb.st[1] = "Complete" THEN "done" ELSE "B"],
                   st |-> rb.st, env |-> rb.env])
           [] OTHER ->
                [g |-> [g EXCEPT !.ub = TRUE], st |-> ub, env |-> env]
    [] g.kind = "sum" ->
         CASE g.pc = "start" ->
                Bind(TakeSum(env, g.k, 0, ub), LAMBDA t :
                  IF t.panic
                  THEN [g |-> g, st |-> Panic, env |-> t.w]
                  ELSE IF 0 < t.sum
                  THEN [g |-> [g EXCEPT !.pc = "loop", !.sum = t.sum, !.i = 1],
                        st |-> Yielded(I32(0)), env |-> t.w]
                  ELSE [g |-> [g EXCEPT !.pc = "done", !.sum = t.sum],
                        st |-> Complete(I32(0)), env |-> t.w])
           [] g.pc = "loop" ->
                IF g.i < g.sum
                THEN [g |-> [g EXCEPT !.i = @ + 1], st |-> Yielded(I32(g.i)), env |-> env]
                ELSE [g |-> [g EXCEPT !.pc = "done"], st |-> Complete(I32(0)), env |-> env]
           [] OTHER ->
                [g |-> [g EXCEPT !.ub = TRUE], st |-> ub, env |-> env]

\* Callable::into_inner and Callable::take: the slot's content; take leaves
\* None behind.
IntoInner(w) == w.slot

\* Faulty variant of Callable::take: the generator is handed out and stays
\* in the slot as well.
CallableTake_Keeps(w) == [w |-> w, ret |-> w.slot]

CallableTake(w) == [w |-> [w EXCEPT !.slot = <<>>], ret |-> w.slot]

\* Faulty variant of Callable::chain: into_inner()'s None is not reported,
\* a generator that returns at once stands in for the absent one.
CallableChain_NoCheck(w, f) ==
  IF IntoInner(w) = <<>>
  THEN <<NewCallableFrom(ChainGen(Prim(<<>>, I32(0)), f), w)>>
  ELSE <<NewCallableFrom(ChainGen(IntoInner(w)[1], f), w)>>

\* Faulty variant of Callable::chain: the generator taken out is resumed
\* once, its result dropped, before the chaining generator is built.
CallableChain_Eager(w, f) ==
  IF IntoInner(w) = <<>> THEN <<>>
  ELSE <<NewCallableFrom(ChainGen(GenResume(IntoInner(w)[1], NoEnv, Panic).g, f), w)>>

\* Callable::chain: None for an exhausted wrapper, else a new wrapper
\* around the chaining generator.  Nothing is resumed.
CallableChain(w, f) ==
  IF IntoInner(w) = <<>> THEN <<>>
  ELSE <<NewCallableFrom(ChainGen(IntoInner(w)[1], f), w)>>

\* Callable::borrow_mut with the closure of make_new's test
CallableBorrowMut(w, k) ==
  IF w.slot /= <<>> THEN <<NewCallable(SumGen(k))>> ELSE <<>>

\* The builder functions handed to move_into: one returns the generator it
\* was given, one drops it and returns a generator of its own.
Builders == {"same", "fresh"}

FreshGen == Prim(<<I32(1)>>, I32(2))

ApplyBuilder(b, g) == IF b = "same" THEN g ELSE FreshGen

\* Faulty variant of Callable::move_into: into_inner()'s None is not
\* reported, the builder is run on a generator that returns at once.
CallableMoveInto_NoCheck(w, b) ==
  IF IntoInner(w) = <<>>
  THEN <<NewCallable(ApplyBuilder(b, Prim(<<>>, I32(0))))>>
  ELSE <<IF b = "same" THEN NewCallableFrom(ApplyBuilder(b, IntoInner(w)[1]), w)
         ELSE NewCallable(ApplyBuilder(b, IntoInner(w)[1]))>>

\* Callable::move_into: None for an exhausted wrapper, else a new wrapper
\* around func(generator).  The wrapper of the generator it was given
\* continues the history of the old one.
CallableMoveInto(w, b) ==
  IF IntoInner(w) = <<>> THEN <<>>
  ELSE <<IF b = "same" THEN NewCallableFrom(ApplyBuilder(b, IntoInner(w)[1]), w)
         ELSE NewCallable(ApplyBuilder(b, IntoInner(w)[1]))>>

\* Callable::make_new with a closure like the one of make_new's test, the
\* wrapper moved into the new generator:
\* |mut gen| move || { sum of (&mut gen).iter_all().take(k) ... }
CallableMakeNew(w, k) ==
  IF w.slot /= <<>> THEN <<NewCallable(SumGen(k))>> ELSE <<>>

\* Poll<T, ()> of the futures crate: Ok(Async::Pending), Ok(Async::Ready(x))
\* and Err(()); the Option of a stream item is <<>> or <<y>>.
AsyncPending  == <<"Ok", "Pending">>
AsyncReady(x) == <<"Ok", "Ready", x>>
PollErr       == <<"Err">>

\* Faulty variant of Future::poll: a generator that is not done is resumed
\* once more before Pending is returned.
CallablePoll_StepsTwice(w, env, ub) ==
  Bind(CallableResume(w, env, ub), LAMBDA r :
    IF r.ret[1] = "Yield"
    THEN Bind(CallableResume(r.w, r.env, ub), LAMBDA q :
           [w |-> q.w, env |-> q.env, ret |-> AsyncPending])
    ELSE [w |-> r.w, env |-> r.env,
          ret |-> CASE r.ret[1] = "Return" -> AsyncReady(r.ret[2])
                    [] r.ret[1] = "Panic" -> Panic
                    [] OTHER -> PollErr])

\* impl Future for Callable: poll
CallablePoll(w, env, ub) ==
  Bind(CallableResume(w, env, ub), LAMBDA r :
    [w |-> r.w, env |-> r.env,
     ret |-> CASE r.ret[1] = "Yield" -> AsyncPending
               [] r.ret[1] = "Return" -> AsyncReady(r.ret[2])
               [] r.ret[1] = "Panic" -> Panic
               [] OTHER -> PollErr])

\* impl Stream for Callable: poll_next
CallablePollNext(w, env, ub) ==
  Bind(CallableResumeWithYield(w, env, ub), LAMBDA r :
    [w |-> r.w, env |-> r.env,
     ret |-> CASE r.ret[1] = "Yield" -> AsyncReady(<<r.ret[2]>>)
               [] r.ret[1] = "Return" -> AsyncReady(<<>>)
               [] r.ret[1] = "Panic" -> Panic
               [] OTHER -> AsyncReady(<<>>)])

\* ------------------------------------------------------------------- state
VARIABLES
  prog,      \* the generator the caller wrapped, and its yield type
  callable,  \* the caller's wrapper
  owned,     \* the caller still holds callable (it was not moved or dropped)
  borrower,  \* <<>>, or <<w>>: the wrapper borrow_mut returned, which borrows callable
  view,      \* the iterator adapter the caller holds
  chains,    \* the closures chain was applied with, in order
  borrowed,  \* <<>>, or <<[k, at, done]>>: the borrow_mut made, how many results
             \* callable had produced by then, and whether the borrower had
             \* returned its final value when it was dropped
  lastOp     \* the last operation and what it returned

vars == <<prog, callable, owned, borrower, view, chains, borrowed, lastOp>>

TestTake == 4
TestSumK == 3

\* The generator that yields 1..n and returns n + 1; test_chain's is the
\* one for n = 2.
CountGen(n) == Prim([i \in 1..n |-> I32(i)], I32(n + 1))

\* The generators the caller wraps: those that count up to MaxYields at
\* most, and test_generator_into_iterator's.
Programs ==
  {[gen |-> CountGen(n), yty |-> "i32"] : n \in 0..MaxYields}
  \cup {[gen |-> ChainTestGen, yty |-> "i32"], [gen |-> CharGen, yty |-> "char"]}

\* The k of Iterator::take(k), and the number of items the closure of
\* borrow_mut sums
TakeCounts == {0, 1, TestTake}
SumCounts  == {0, 1, TestSumK}

\* An adapter: its kind, whether it holds &mut Callable or the Callable,
\* what is left of Take's count (<<>> without Take), and as history the k of
\* take(k), the items next() returned, whether next() has returned None,
\* how many results the wrapper had produced, and whether it was live,
\* when the adapter was made, and after: <<k>> when the caller made it
\* right after dropping a take(k) adapter over &mut of a live Callable
\* that had returned its k items, or Drained right after dropping an
\* iter_yielded() adapter over &mut of a live Callable that had been pulled
\* until it returned None.
NoView == [kind |-> "none", byRef |-> FALSE, take |-> <<>>, k |-> <<>>, items |-> <<>>,
           ended |-> FALSE, base |-> 0, live |-> FALSE, after |-> <<>>]

\* What dropping an iter_yielded() adapter that had returned None leaves
\* for `after`
Drained == <<"iter_yielded", "None">>

Dropped == IF lastOp.op = "drop_view" THEN lastOp.ret ELSE <<>>

Op(name, ret) == [op |-> name, ret |-> ret]

\* The wrapper has returned State::Return from a step.
HasReturned(w) == \E i \in DOMAIN w.log : w.log[i][1] = "Return"

Erased(w) == Cardinality({i \in DOMAIN w.log : w.log[i] = StYieldUnit})

Init ==
  /\ prog \in Programs
  /\ callable = NewCallable(prog.gen)
  /\ owned = TRUE
  /\ borrower = <<>>
  /\ view = NoView
  /\ chains = <<>>
  /\ borrowed = <<>>
  /\ lastOp = Op("new", <<>>)

\* The wrapper the caller can reach: the borrower while it exists.
Cur    == IF borrower = <<>> THEN callable ELSE borrower[1]
CurEnv == IF borrower = <<>> THEN NoEnv ELSE callable
CurYTy == IF borrower = <<>> THEN prog.yty ELSE "i32"
Accessible == view.kind = "none" /\ (borrower /= <<>> \/ owned)

\* r is the result of a step on Cur: the wrappers afterwards.
Stepped(r) ==
  /\ IF borrower = <<>>
     THEN callable' = r.w /\ borrower' = <<>>
     ELSE callable' = r.env /\ borrower' = <<r.w>>

\* callable.resume(), or (&mut callable).resume()
Resume(viaRef) ==
  /\ Accessible
  /\ \E ub \in UBOutcomes :
       \E r \in {IF viaRef THEN RefResume(Cur, CurEnv, ub)
                 ELSE CallableResume(Cur, CurEnv, ub)} :
          /\ Stepped(r)
          /\ Erased(r.w) <= MaxErased
          /\ lastOp' = Op("resume", r.ret)
  /\ UNCHANGED <<prog, owned, view, chains, borrowed>>

\* callable.resume_with_yield(), or (&mut callable).resume_with_yield()
ResumeWithYield(viaRef) ==
  /\ Accessible
  /\ \E ub \in UBOutcomes :
       \E r \in {IF viaRef THEN RefResumeWithYield(Cur, CurEnv, ub)
                 ELSE CallableResumeWithYield(Cur, CurEnv, ub)} :
          /\ Stepped(r)
          /\ lastOp' = Op("resume_with_yield", r.ret)
  /\ UNCHANGED <<prog, owned, view, chains, borrowed>>

\* callable.iter_yielded() or (&mut callable).iter_yielded()
IterYielded(byRef) ==
  /\ Accessible
  /\ view' = [NoView EXCEPT !.kind = "yielded", !.byRef = byRef,
                             !.base = Len(Cur.log), !.live = Cur.slot /= <<>>,
                             !.after = Dropped]
  /\ lastOp' = Op("iter_yielded", <<>>)
  /\ UNCHANGED <<prog, callable, owned, borrower, chains, borrowed>>

\* callable.iter_all() or (&mut callable).iter_all()
IterAll(byRef) ==
  /\ Accessible
  /\ view' = [NoView EXCEPT !.kind = "all", !.byRef = byRef,
                             !.base = Len(Cur.log), !.live = Cur.slot /= <<>>,
                             !.after = Dropped]
  /\ lastOp' = Op("iter_all", <<>>)
  /\ UNCHANGED <<prog, callable, owned, borrower, chains, borrowed>>

\* .take(k) on the adapter just made over &mut callable
TakeK(k) ==
  /\ view.kind /= "none" /\ view.byRef /\ view.take = <<>> /\ view.items = <<>> /\ ~view.ended
  /\ view' = [view EXCEPT !.take = <<k>>, !.k = <<k>>]
  /\ lastOp' = Op("iter_take", <<>>)
  /\ UNCHANGED <<prog, callable, owned, borrower, chains, borrowed>>

\* next() on the adapter.  Take::next returns None without calling the
\* inner next once its count is 0, and counts down before each inner call.
ViewNext ==
  /\ view.kind /= "none"
  /\ IF view.take = <<0>>
     THEN /\ view' = [view EXCEPT !.ended = TRUE]
          /\ lastOp' = Op("next", NoItem)
          /\ UNCHANGED <<callable, borrower>>
     ELSE \E ub \in UBOutcomes :
            \E r \in {IF view.kind = "yielded"
                      THEN YieldIteratorNext(Cur, CurEnv, ub, view.byRef)
                      ELSE ReturnIteratorNext(Cur, CurEnv, ub, view.byRef, CurYTy)} :
               /\ Stepped(r)
               /\ view' = [view EXCEPT
                     !.take = IF @ = <<>> THEN <<>> ELSE <<@[1] - 1>>,
                     !.items = IF r.item[1] = "Some" THEN Append(@, r.item[2]) ELSE @,
                     !.ended = @ \/ r.item = NoItem]
               /\ lastOp' = Op("next", r.item)
  /\ UNCHANGED <<prog, owned, chains, borrowed>>

\* The adapter goes out of scope; one that owns its wrapper drops it.
DropView ==
  /\ view.kind /= "none"
  /\ view' = NoView
  /\ IF view.byRef THEN UNCHANGED <<owned, borrower, borrowed>>
     ELSE IF borrower /= <<>>
     THEN /\ borrower' = <<>>
          /\ borrowed' = <<[borrowed[1] EXCEPT !.done = HasReturned(borrower[1])]>>
          /\ UNCHANGED owned
     ELSE owned' = FALSE /\ UNCHANGED <<borrower, borrowed>>
  /\ lastOp' = Op("drop_view",
                  IF view.byRef /\ view.live /\ view.k /= <<>>
                     /\ view.take = <<0>> /\ Len(view.items) = view.k[1]
                  THEN view.k
                  ELSE IF view.byRef /\ view.live /\ view.kind = "yielded"
                          /\ view.take = <<>> /\ view.ended
                  THEN Drained ELSE <<>>)
  /\ UNCHANGED <<prog, callable, chains>>

\* callable = callable.chain(f).unwrap(), or None and callable is gone
Chain(f) ==
  /\ Accessible /\ borrower = <<>>
  /\ prog.yty = "i32" /\ borrowed = <<>>
  /\ Len(chains) < MaxChain
  /\ \E c \in {CallableChain(callable, f)} :
        IF c = <<>>
        THEN /\ owned' = FALSE
             /\ lastOp' = Op("chain", None)
             /\ UNCHANGED <<callable, chains>>
        ELSE /\ callable' = c[1]
             /\ chains' = Append(chains, f)
             /\ lastOp' = Op("chain", <<"Some">>)
             /\ UNCHANGED owned
  /\ UNCHANGED <<prog, borrower, view, borrowed>>

\* callable.borrow_mut(|gen| move || { sum of gen.iter_all().take(k) ... })
BorrowMut(k) ==
  /\ Accessible /\ borrower = <<>>
  /\ prog.yty = "i32" /\ chains = <<>> /\ borrowed = <<>>
  /\ borrower' = CallableBorrowMut(callable, k)
  /\ borrowed' = IF borrower' = <<>> THEN borrowed
                 ELSE <<[k |-> k, at |-> Len(callable.log), done |-> FALSE]>>
  /\ lastOp' = Op("borrow_mut", IF borrower' = <<>> THEN None ELSE <<"Some">>)
  /\ UNCHANGED <<prog, callable, owned, view, chains>>

\* callable.take(): the generator is taken out and dropped unresumed.
Take ==
  /\ Accessible
  /\ \E r \in {CallableTake(Cur)} :
       /\ IF borrower = <<>> THEN callable' = r.w /\ UNCHANGED borrower
          ELSE borrower' = <<r.w>> /\ UNCHANGED callable
       /\ lastOp' = Op("take", IF r.ret = <<>> THEN None ELSE <<"Some", r.ret[1]>>)
  /\ UNCHANGED <<prog, owned, view, chains, borrowed>>

\* The wrapper borrow_mut returned goes out of scope.
DropBorrower ==
  /\ Accessible /\ borrower /= <<>>
  /\ borrower' = <<>>
  /\ borrowed' = <<[borrowed[1] EXCEPT !.done = HasReturned(borrower[1])]>>
  /\ lastOp' = Op("drop_borrower", <<>>)
  /\ UNCHANGED <<prog, callable, owned, view, chains>>

\* callable = callable.move_into(b).unwrap(), or None and callable is gone
MoveInto(b) ==
  /\ Accessible /\ borrower = <<>>
  /\ b = "same" \/ prog.yty = "i32"
  /\ \E c \in {CallableMoveInto(callable, b)} :
        IF c = <<>>
        THEN /\ owned' = FALSE
             /\ lastOp' = Op("move_into", None)
             /\ UNCHANGED callable
        ELSE /\ callable' = c[1]
             /\ lastOp' = Op("move_into", <<"Some", b>>)
             /\ UNCHANGED owned
  /\ UNCHANGED <<prog, borrower, view, chains, borrowed>>

\* callable.make_new(|mut gen| move || { ... }): callable is moved into
\* the generator of the wrapper returned, or dropped with None returned.
MakeNew(k) ==
  /\ Accessible /\ borrower = <<>>
  /\ prog.yty = "i32" /\ chains = <<>> /\ borrowed = <<>>
  /\ borrower' = CallableMakeNew(callable, k)
  /\ borrowed' = IF borrower' = <<>> THEN borrowed
                 ELSE <<[k |-> k, at |-> Len(callable.log), done |-> FALSE]>>
  /\ owned' = FALSE
  /\ lastOp' = Op("make_new", IF borrower' = <<>> THEN None ELSE <<"Some", k>>)
  /\ UNCHANGED <<prog, callable, view, chains>>

\* callable.poll(cx)
Poll ==
  /\ Accessible
  /\ \E ub \in UBOutcomes :
       \E r \in {CallablePoll(Cur, CurEnv, ub)} :
          /\ Stepped(r)
          /\ lastOp' = Op("poll", r.ret)
  /\ UNCHANGED <<prog, owned, view, chains, borrowed>>

\* callable.poll_next(cx)
PollNext ==
  /\ Accessible
  /\ \E ub \in UBOutcomes :
       \E r \in {CallablePollNext(Cur, CurEnv, ub)} :
          /\ Stepped(r)
          /\ lastOp' = Op("poll_next", r.ret)
  /\ UNCHANGED <<prog, owned, view, chains, borrowed>>

Next ==
  \/ \E viaRef \in BOOLEAN : Resume(viaRef)
  \/ \E viaRef \in BOOLEAN : ResumeWithYield(viaRef)
  \/ \E byRef \in BOOLEAN : IterYielded(byRef)
  \/ \E byRef \in BOOLEAN : IterAll(byRef)
  \/ \E k \in TakeCounts : TakeK(k)
  \/ ViewNext
  \/ DropView
  \/ \E f \in Transforms : Chain(f)
  \/ \E k \in SumCounts : BorrowMut(k)
  \/ DropBorrower
  \/ Take

Spec == Init /\ [][Next]_vars

\* The make_new test at its own size: the caller wraps the generator of
\* 0..10, may step it, borrows it for a sum of k items, and reads both
\* wrappers through iter_all() or step by step.
InitMakeNew ==
  /\ prog = [gen |-> RangeGen, yty |-> "i32"]
  /\ callable = NewCallable(prog.gen)
  /\ owned = TRUE
  /\ borrower = <<>>
  /\ view = NoView
  /\ chains = <<>>
  /\ borrowed = <<>>
  /\ lastOp = Op("new", <<>>)

NextMakeNew ==
  \/ \E viaRef \in BOOLEAN : ResumeWithYield(viaRef)
  \/ \E byRef \in BOOLEAN : IterAll(byRef)
  \/ ViewNext
  \/ DropView
  \/ \E k \in SumCounts : BorrowMut(k)
  \/ DropBorrower

SpecMakeNew == InitMakeNew /\ [][NextMakeNew]_vars

\* The composing operations next to each other: chain and the three
\* delegation adapters, with the steps and adapters that show what they did.
NextDelegation ==
  \/ \E viaRef \in BOOLEAN : ResumeWithYield(viaRef)
  \/ \E byRef \in BOOLEAN : IterAll(byRef)
  \/ ViewNext
  \/ DropView
  \/ \E f \in Transforms : Chain(f)
  \/ \E b \in Builders : MoveInto(b)
  \/ \E k \in SumCounts : MakeNew(k)
  \/ \E k \in SumCounts : BorrowMut(k)
  \/ DropBorrower
  \/ Take

SpecDelegation == Init /\ [][NextDelegation]_vars

\* The wrapper as a Future and a Stream (feature "extfutures"): polled
\* either way in any order, chained and emptied by take() in between.
NextFutures ==
  \/ Poll
  \/ PollNext
  \/ \E f \in Transforms : Chain(f)
  \/ Take

SpecFutures == Init /\ [][NextFutures]_vars

\* The step protocol by itself: the two step operations in any order on a
\* wrapper that may be chained, borrowed and emptied, no adapter involved.
NextSteps ==
  \/ \E viaRef \in BOOLEAN : Resume(viaRef)
  \/ \E viaRef \in BOOLEAN : ResumeWithYield(viaRef)
  \/ \E f \in Transforms : Chain(f)
  \/ \E k \in SumCounts : BorrowMut(k)
  \/ DropBorrower
  \/ Take

SpecSteps == Init /\ [][NextSteps]_vars
\* ---------------------------------------------------------- what to expect
\* The results of stepping a generator literal to its end
Outputs(ys, ret) ==
  [i \in 1..(Len(ys) + 1) |-> IF i <= Len(ys) THEN StYield(ys[i]) ELSE StReturn(ret)]

\* The results of A chained with f: A's yields, then the results of f(A's final)
ChainOutputs(out, f) ==
  LET B == ApplyTransform(f, out[Len(out)][2])
  IN SubSeq(out, 1, Len(out) - 1) \o Outputs(B.ys, B.ret)

RECURSIVE Chained(_, _)
Chained(out, fs) ==
  IF fs = <<>> THEN out ELSE Chained(ChainOutputs(out, Head(fs)), Tail(fs))

\* What the caller's computation produces from its start to its end
Expected == Chained(Outputs(prog.gen.ys, prog.gen.ret), chains)

RECURSIVE SumOf(_, _, _)
SumOf(exp, lo, hi) == IF lo > hi THEN 0 ELSE exp[lo][2].n + SumOf(exp, lo + 1, hi)

Min(a, b) == IF a <= b THEN a ELSE b

\* What the borrower produces: 0..sum, then 0, for the sum of the k items
\* that follow the first `at` of the original
BExpected ==
  LET b == borrowed[1]
      sum == SumOf(Expected, b.at + 1, Min(b.at + b.k, Len(Expected)))
  IN Outputs([i \in 1..sum |-> I32(i - 1)], I32(0))

ExpFor == IF borrower = <<>> THEN Expected ELSE BExpected

\* e is what a step returned where x was due: x, or x with its payload erased
Matches(e, x) == e = x \/ (e = StYieldUnit /\ x[1] = "Yield")

LogMatches(w, exp) ==
  /\ Len(w.log) <= Len(exp)
  /\ \A i \in DOMAIN w.log : Matches(w.log[i], exp[i])

NumYields(exp) == Len(exp) - 1
YieldVals(exp) == [i \in 1..(Len(exp) - 1) |-> exp[i][2]]
\* The final value f as an item: the value of the yield type that f.into()
\* is, 'c' for 99u8
Converted(f, yty) == [ty |-> yty, n |-> f.n]
AllVals(exp, yty) ==
  [i \in 1..Len(exp) |-> IF i < Len(exp) THEN exp[i][2] ELSE Converted(exp[i][2], yty)]
Rest(s, b) == IF b >= Len(s) THEN <<>> ELSE SubSeq(s, b + 1, Len(s))
IsPrefix(a, b) == Len(a) <= Len(b) /\ SubSeq(b, 1, Len(a)) = a

Wrappers == {callable} \cup (IF borrower = <<>> THEN {} ELSE {borrower[1]})
StepOps == {"resume", "resume_with_yield"}
Tag(x) == IF x = <<>> THEN "" ELSE x[1]

\* The generator has reported its final value.
Completed(g) == IF g.kind = "prim" THEN g.done ELSE g.pc = "done"

\* The generator, or one it drives, was resumed after its completion.
RECURSIVE AnyUB(_)
AnyUB(g) ==
  \/ g.ub
  \/ g.kind = "chain" /\ (AnyUB(g.a) \/ (g.b /= <<>> /\ AnyUB(g.b[1])))

\* The chaining generators of g, innermost first: the j-th was built by the
\* j-th chain.
RECURSIVE ChainNodes(_)
ChainNodes(g) == IF g.kind = "chain" THEN Append(ChainNodes(g.a), g) ELSE <<>>

\* -------------------------------------------------------------- properties

\* C1: no step operation, direct or through an adapter or a &mut handle,
\* advances a computation that has reported its final value: a populated
\* slot holds a computation that has not completed and was never resumed
\* after completion, every advance produced one result, and no step
\* panicked.
C1_NeverResumedAfterCompletion ==
  \A w \in Wrappers :
    /\ w.last /= Panic
    /\ w.adv = Len(w.log)
    /\ w.slot /= <<>> => ~Completed(w.slot[1]) /\ ~AnyUB(w.slot[1])
    /\ w.spent /= <<>> => w.slot = <<>> /\ ~AnyUB(w.spent[1])

\* C1 witness: a step after the final value found the slot empty.
C1_Witness ==
  /\ lastOp = Op("resume", None)
  /\ HasReturned(callable) /\ callable.slot = <<>>
  /\ callable.adv = Len(callable.log)

\* w2 is w, or w after a step that returned None
Frozen(w, w2) == w2 = w \/ w2 = [w EXCEPT !.last = None]

\* C2: once a step has returned Return, every later step operation on that
\* wrapper, of either view, returns None and changes nothing.
C2_ExhaustionMonotone ==
  [][/\ HasReturned(callable) => Frozen(callable, callable')
     /\ (borrower /= <<>> /\ borrower' /= <<>> /\ HasReturned(borrower[1]))
          => Frozen(borrower[1], borrower'[1])
     /\ (Accessible /\ HasReturned(Cur) /\ lastOp'.op \in StepOps)
          => lastOp'.ret = None]_vars

\* C2 witness: resume_with_yield returned None after a Return.
C2_Witness ==
  /\ lastOp = Op("resume_with_yield", None)
  /\ HasReturned(callable) /\ callable.last = None

\* C3: a wrapper produces at most one final value, the one its computation
\* completes with, and clears its slot in that step: after a step that
\* returned Yield the slot is populated, after the one that returned Return
\* it is empty, and it is empty whenever a Return has been returned.
C3_OneFinalSlotCleared ==
  /\ \A w \in Wrappers :
       /\ Cardinality({i \in DOMAIN w.log : w.log[i][1] = "Return"}) <= 1
       /\ HasReturned(w) => /\ w.slot = <<>>
                            /\ w.log[Len(w.log)][1] = "Return"
                            /\ w.spent /= <<>> /\ Completed(w.spent[1])
       /\ Tag(w.last) = "Return" => w.slot = <<>>
  /\ HasReturned(callable) => callable.log[Len(callable.log)] = Expected[Len(Expected)]
  /\ (lastOp.op \in StepOps /\ Tag(lastOp.ret) = "Yield") => Cur.slot /= <<>>
  /\ (lastOp.op \in StepOps /\ Tag(lastOp.ret) = "Return") => Cur.slot = <<>>

\* C3 witness: the step that returned the final value left the slot empty.
C3_Witness ==
  /\ lastOp.op = "resume_with_yield" /\ Tag(lastOp.ret) = "Return"
  /\ callable.slot = <<>> /\ Len(callable.log) > 1

\* C4: a chained wrapper driven through the step protocol produces A's
\* yields in order, then the yields of transform(A's final) in order, then
\* that generator's final value, and so on for every further chain.
C4_ChainOrder ==
  chains /= <<>> =>
    /\ LogMatches(callable, Expected)
    /\ HasReturned(callable) => Len(callable.log) = Len(Expected)

\* C4 witness: test_chain's pipeline gave 1, 2, 6, 30, 29 and stopped.
C4_Witness ==
  /\ prog.gen = ChainTestGen /\ chains = <<"double", "tenfold">>
  /\ view.kind = "all" /\ view.base = 0 /\ view.ended
  /\ view.items = <<I32(1), I32(2), I32(6), I32(30), I32(29)>>
  /\ callable.log = <<StYield(I32(1)), StYield(I32(2)), StYield(I32(6)),
                      StYield(I32(30)), StReturn(I32(29))>>

\* The generator of the caller's wrapper, live or as it was dropped
TheGen == IF callable.slot /= <<>> THEN callable.slot ELSE callable.spent

\* C5: the closure of the j-th chain has run exactly once, with A's final
\* value, if the step in which A completed has happened, and not at all
\* before it (so not in chain() itself); provided_gen exists only then.
C5_TransformLazyOnce ==
  TheGen /= <<>> =>
    LET nodes == ChainNodes(TheGen[1]) IN
    /\ Len(nodes) = Len(chains)
    /\ \A j \in DOMAIN nodes :
         LET nd == nodes[j]
             ea == Chained(Outputs(prog.gen.ys, prog.gen.ret), SubSeq(chains, 1, j - 1))
         IN /\ nd.f = chains[j]
            /\ nd.calls = IF Len(callable.log) >= Len(ea) THEN 1 ELSE 0
            /\ nd.calls = 0 => nd.pc = "A" /\ nd.b = <<>> /\ nd.arg = <<>>
            /\ nd.calls = 1 => nd.pc /= "A" /\ nd.b /= <<>> /\ nd.arg = <<ea[Len(ea)][2]>>

\* C5 witness: the step in which A completed ran the closure and made
\* provided_gen's first advance.
C5_Witness ==
  /\ chains = <<"double">> /\ callable.slot /= <<>>
  /\ callable.slot[1].pc = "B" /\ callable.slot[1].calls = 1
  /\ callable.slot[1].b[1].pos = 1
  /\ Len(callable.log) = Len(prog.gen.ys) + 1 /\ Len(prog.gen.ys) = 2

\* The adapter was made over a live wrapper and has no Take around it.
PlainLiveView(kind) ==
  view.kind = kind /\ view.take = <<>> /\ view.live

\* C6: iter_yielded() over a live wrapper returns the remaining yielded
\* values in order and then no item; the final value is consumed but not
\* returned, and every later next() returns no item and advances nothing.
C6_YieldOnlyOrder ==
  PlainLiveView("yielded") =>
    LET all == Rest(YieldVals(ExpFor), view.base) IN
    /\ IsPrefix(view.items, all)
    /\ Len(Cur.log) = view.base + Len(view.items) + (IF view.ended THEN 1 ELSE 0)
    /\ Cur.adv = Len(Cur.log)
    /\ view.ended => /\ view.items = all
                     /\ Cur.slot = <<>>
                     /\ Cur.log[Len(Cur.log)] = ExpFor[Len(ExpFor)]
                     /\ lastOp = Op("next", NoItem)

\* C6 witness: the yield-only adapter gave the five chars, not the 99, and
\* a further next() gave no item again.
C6_Witness ==
  /\ prog.gen = CharGen /\ PlainLiveView("yielded") /\ view.base = 0
  /\ view.items = <<Char(0), Char(1), Char(2), Char(3), Char(4)>>
  /\ view.ended /\ Cur.last = None /\ lastOp = Op("next", NoItem)

\* C7: iter_all() over a live wrapper returns the remaining yielded values
\* in order, then the final value converted into the yield type, then no
\* item on every later next(); with no yields it returns just that one item.
C7_YieldPlusFinal ==
  PlainLiveView("all") =>
    LET all == Rest(AllVals(ExpFor, CurYTy), view.base) IN
    /\ IsPrefix(view.items, all)
    /\ Len(Cur.log) = view.base + Len(view.items)
    /\ Cur.adv = Len(Cur.log)
    /\ view.items = all => Cur.slot = <<>>
    /\ view.ended => view.items = all /\ lastOp = Op("next", NoItem)
    /\ (Len(ExpFor) = 1 /\ view.ended) =>
          view.items = <<Converted(ExpFor[1][2], CurYTy)>>

\* C7 witness: the five chars, then 'c' for the u8 99, then no item twice.
C7_Witness ==
  /\ prog.gen = CharGen /\ PlainLiveView("all") /\ view.base = 0
  /\ view.items = <<Char(0), Char(1), Char(2), Char(3), Char(4), Char(99)>>
  /\ view.ended /\ Cur.last = None /\ lastOp = Op("next", NoItem)

\* C8: a take(k) adapter over &mut of a live wrapper with more than k
\* yields left returns the next k of them, advances the wrapper k times and
\* leaves it live; an adapter made right after that one was dropped
\* returns what follows, in order, nothing repeated and nothing lost.
C8_PartialConsumption ==
  /\ (view.kind /= "none" /\ view.byRef /\ view.k /= <<>> /\ view.live
        /\ NumYields(ExpFor) - view.base > view.k[1]) =>
       /\ Cur.slot /= <<>>
       /\ Len(view.items) = view.k[1] - view.take[1]
       /\ Len(Cur.log) = view.base + Len(view.items)
       /\ view.items = SubSeq(YieldVals(ExpFor), view.base + 1, view.base + Len(view.items))
       /\ view.ended => view.take = <<0>>
  /\ (view.kind /= "none" /\ view.after /= <<>> /\ view.take = <<>>
        /\ NumYields(ExpFor) > view.base) =>
       LET all == Rest(IF view.kind = "all" THEN AllVals(ExpFor, CurYTy)
                       ELSE YieldVals(ExpFor), view.base)
       IN /\ view.live
          /\ IsPrefix(view.items, all)
          /\ view.ended => view.items = all

\* C8 witness: after take(4) gave 0, 1, 2, 3 the new adapter gave 4, 'c'
\* and no more.
C8_Witness ==
  /\ prog.gen = CharGen /\ view.kind = "all" /\ view.after = <<TestTake>>
  /\ view.base = TestTake /\ view.items = <<Char(4), Char(99)>> /\ view.ended
  /\ callable.log = <<StYield(Char(0)), StYield(Char(1)), StYield(Char(2)),
                      StYield(Char(3)), StYield(Char(4)), StReturn(U8(99))>>

\* C9: when the generator made in borrow_mut takes k items of the borrowed
\* wrapper, k less than the yields that wrapper has left, then once it has
\* completed the borrowed wrapper is live and k results further, and goes
\* on to produce its remaining yields in order and its own final value.
C9_BorrowMutDelegation ==
  (borrowed /= <<>> /\ NumYields(Expected) - borrowed[1].at > borrowed[1].k) =>
    LET b == borrowed[1] IN
    /\ LogMatches(callable, Expected)
    /\ borrower /= <<>> =>
         /\ callable.slot /= <<>>
         /\ LogMatches(borrower[1], BExpected)
         /\ Len(callable.log) = b.at + (IF borrower[1].adv > 0 THEN b.k ELSE 0)
         /\ HasReturned(borrower[1]) => Len(borrower[1].log) = Len(BExpected)
    /\ (b.done /\ lastOp.op = "drop_borrower") =>
         callable.slot /= <<>> /\ Len(callable.log) = b.at + b.k
    /\ b.done => /\ Len(callable.log) >= b.at + b.k
                 /\ HasReturned(callable) => Len(callable.log) = Len(Expected)
    /\ (b.done /\ PlainLiveView("all") /\ view.base = b.at + b.k /\ view.ended) =>
         view.items = Rest(AllVals(Expected, prog.yty), b.at + b.k)

\* C9 witness: the borrower summed 0, 1, 2, ran to its end and was dropped;
\* the original then gave 3, 4, 5, 6, 7, 8, 9 and its final value 2.
C9_Witness ==
  /\ prog.gen = RangeGen
  /\ borrowed = <<[k |-> TestSumK, at |-> 0, done |-> TRUE]>> /\ borrower = <<>>
  /\ PlainLiveView("all") /\ view.base = TestSumK /\ view.ended
  /\ view.items = <<I32(3), I32(4), I32(5), I32(6), I32(7), I32(8), I32(9), I32(2)>>

\* C10: chain on a wrapper whose slot is empty returns None, builds no
\* wrapper and runs no closure; on a populated slot it returns a live
\* wrapper around the chaining generator, which has not started.
C10_ChainReportsExhaustion ==
  [][lastOp'.op = "chain" =>
       IF callable.slot = <<>>
       THEN /\ lastOp'.ret = None /\ ~owned'
            /\ chains' = chains /\ callable' = callable
       ELSE /\ lastOp'.ret = <<"Some">> /\ owned'
            /\ Len(chains') = Len(chains) + 1
            /\ callable'.slot = <<ChainGen(callable.slot[1], chains'[Len(chains')])>>
            /\ callable'.slot[1].calls = 0]_vars

\* C10 witness: chain returned None for a wrapper driven to completion.
C10_Witness ==
  /\ lastOp = Op("chain", None) /\ ~owned
  /\ HasReturned(callable) /\ callable.slot = <<>>

\* C10 witness's twin for take(): chain returned None after take().
C10_TakenWitness ==
  /\ lastOp = Op("chain", None) /\ ~owned
  /\ ~HasReturned(callable) /\ callable.slot = <<>>

\* How many results the generator has produced: the suspension points it
\* has passed, counting its return; for a chaining generator without the
\* return of A, which it does not pass on.
RECURSIVE Surfaced(_)
Surfaced(g) ==
  CASE g.kind = "prim" -> g.pos + (IF g.done THEN 1 ELSE 0)
    [] g.kind = "chain" ->
         (Surfaced(g.a) - (IF Completed(g.a) THEN 1 ELSE 0))
         + (IF g.b = <<>> THEN 0 ELSE Surfaced(g.b[1]))
    [] g.kind = "sum" ->
         IF g.pc = "start" THEN 0 ELSE IF g.pc = "loop" THEN g.i ELSE g.sum + 1

\* C11: move_into, make_new and borrow_mut on a wrapper whose slot is empty
\* return None and build nothing; on a populated slot they return a live
\* wrapper around what the builder made; borrow_mut leaves the wrapper it
\* was called on as it was.
C11_DelegationReportsExhaustion ==
  [][/\ lastOp'.op = "move_into" =>
          IF callable.slot = <<>>
          THEN lastOp'.ret = None /\ ~owned' /\ callable' = callable
          ELSE /\ Tag(lastOp'.ret) = "Some" /\ owned'
               /\ callable'.slot =
                    <<IF lastOp'.ret[2] = "same" THEN callable.slot[1] ELSE FreshGen>>
     /\ lastOp'.op = "make_new" =>
          IF callable.slot = <<>>
          THEN lastOp'.ret = None /\ borrower' = <<>> /\ ~owned'
          ELSE /\ Tag(lastOp'.ret) = "Some" /\ borrower' /= <<>>
               /\ borrower'[1].slot = <<SumGen(lastOp'.ret[2])>>
     /\ lastOp'.op = "borrow_mut" =>
          /\ callable' = callable /\ owned' = owned
          /\ IF callable.slot = <<>>
             THEN lastOp'.ret = None /\ borrower' = <<>>
             ELSE /\ Tag(lastOp'.ret) = "Some" /\ borrower' /= <<>>
                  /\ borrower'[1].slot /= <<>>
                  /\ borrower'[1].slot[1].kind = "sum"]_vars

\* C11 witness: make_new returned None for a wrapper driven to completion.
C11_Witness ==
  /\ lastOp = Op("make_new", None) /\ borrower = <<>> /\ ~owned
  /\ HasReturned(callable) /\ callable.slot = <<>>

\* C11, move_into: it returned None after take().
C11_MoveIntoWitness ==
  /\ lastOp = Op("move_into", None) /\ ~owned
  /\ ~HasReturned(callable) /\ callable.slot = <<>>

\* C12: chain, move_into, make_new and borrow_mut on a live wrapper resume
\* nothing: the generator that was in the slot is where it was, the
\* generator of the wrapper returned has passed no suspension point of its
\* own, and the original stays there until the returned wrapper is stepped.
C12_ComposingDrivesNothing ==
  [][/\ (lastOp'.op \in {"chain", "move_into", "make_new", "borrow_mut"}
           /\ callable.slot /= <<>>) =>
          /\ lastOp'.op = "chain" =>
               /\ callable'.slot[1].a = callable.slot[1]
               /\ callable'.slot[1].pc = "A" /\ callable'.slot[1].b = <<>>
               /\ Surfaced(callable'.slot[1]) = Surfaced(callable.slot[1])
               /\ callable'.adv = callable.adv
          /\ lastOp'.op = "move_into" =>
               IF lastOp'.ret[2] = "same"
               THEN callable'.slot = callable.slot /\ callable'.adv = callable.adv
               ELSE Surfaced(callable'.slot[1]) = 0 /\ callable'.adv = 0
          /\ lastOp'.op \in {"make_new", "borrow_mut"} =>
               /\ callable' = callable
               /\ Surfaced(borrower'[1].slot[1]) = 0 /\ borrower'[1].adv = 0
     /\ (borrower /= <<>> /\ borrower[1].adv = 0) =>
          /\ Len(callable.log) = borrowed[1].at
          /\ callable.slot /= <<>> => Surfaced(callable.slot[1]) = borrowed[1].at]_vars

\* C12 witness: a wrapper two results along was borrowed and is still two
\* results along, the new wrapper not yet stepped.
C12_Witness ==
  /\ lastOp.op = "borrow_mut" /\ borrower /= <<>> /\ borrower[1].adv = 0
  /\ callable.slot /= <<>> /\ Surfaced(callable.slot[1]) = 2
  /\ borrowed[1].at = 2

\* The wrapper the caller can reach, after the step
CurNext == IF borrower' = <<>> THEN callable' ELSE borrower'[1]

\* C13: take() on a live wrapper returns the generator as it is, resumed no
\* further, and empties the slot; take() on an empty slot, emptied by an
\* earlier take() or by completion, returns None; and every step operation
\* on an empty slot returns None and changes nothing.
C13_TakeIdempotent ==
  [][/\ lastOp'.op = "take" =>
          /\ CurNext.slot = <<>>
          /\ CurNext.log = Cur.log /\ CurNext.adv = Cur.adv
          /\ IF Cur.slot = <<>> THEN lastOp'.ret = None
             ELSE /\ lastOp'.ret = <<"Some", Cur.slot[1]>>
                  /\ Surfaced(lastOp'.ret[2]) = Len(Cur.log)
          /\ HasReturned(Cur) => lastOp'.ret = None
     /\ (Accessible /\ Cur.slot = <<>> /\ lastOp'.op \in StepOps) =>
          lastOp'.ret = None /\ Frozen(Cur, CurNext)]_vars

\* C13 witness: a second take() returned None on a wrapper that the first
\* take() had emptied after one step.
C13_Witness ==
  /\ lastOp = Op("take", None) /\ borrower = <<>>
  /\ callable.slot = <<>> /\ ~HasReturned(callable) /\ Len(callable.log) = 1

\* C13, steps after take(): resume_with_yield returned None.
C13_StepWitness ==
  /\ lastOp = Op("resume_with_yield", None) /\ borrower = <<>>
  /\ callable.slot = <<>> /\ ~HasReturned(callable) /\ callable.last = None

\* C14: from any state of a wrapper, resume() returns None, Yield(()) or
\* Return(f) exactly when resume_with_yield() returns None, Yield(v) or
\* Return(f) with the same f, and the two leave the same slot, the same
\* borrowed wrapper and a generator one suspension point further.
C14_ResumeIsProjection ==
  \A ub \in UBOutcomes :
    \A one \in {CallableResume(Cur, CurEnv, ub)} :
      \A all \in {CallableResumeWithYield(Cur, CurEnv, ub)} :
        /\ one.ret = None <=> all.ret = None
        /\ one.ret = StYieldUnit <=> Tag(all.ret) = "Yield"
        /\ Tag(one.ret) = "Return" <=> Tag(all.ret) = "Return"
        /\ Tag(one.ret) = "Return" => one.ret = all.ret
        /\ one.ret \in {None, StYieldUnit} \/ Tag(one.ret) = "Return"
        /\ one.w.slot = all.w.slot /\ one.w.spent = all.w.spent
        /\ one.w.adv = all.w.adv /\ one.env = all.env
        /\ one.w.adv = Cur.adv + (IF Cur.slot = <<>> THEN 0 ELSE 1)
        /\ one.w.slot /= <<>> => Surfaced(one.w.slot[1]) = Surfaced(Cur.slot[1]) + 1

\* C14 witness: after a resume() that returned Yield(()) for the 1, the next
\* resume() would return Yield(()) where resume_with_yield() returns Yield(2).
C14_Witness ==
  /\ prog.gen = ChainTestGen /\ chains = <<>> /\ borrower = <<>>
  /\ lastOp = Op("resume", StYieldUnit) /\ callable.log = <<StYieldUnit>>
  /\ CallableResume(callable, NoEnv, Panic).ret = StYieldUnit
  /\ CallableResumeWithYield(callable, NoEnv, Panic).ret = StYield(I32(2))

\* The generator of wrapper w, live or as it was dropped at completion
GenOf(w) == IF w.slot /= <<>> THEN w.slot ELSE w.spent

\* The wrapper has been advanced once for each result it returned, and so
\* has its generator.
OnePerResult(w) ==
  /\ w.adv = Len(w.log)
  /\ GenOf(w) /= <<>> => Surfaced(GenOf(w)[1]) = Len(w.log)

\* An adapter over a live wrapper has advanced it once for each item it
\* returned (and once for the final value that iter_yielded() drops), and
\* under take(k) once for each of the k calls that reached it.
OnePerItem ==
  (view.kind /= "none" /\ view.live) =>
    /\ Cur.adv - view.base =
         Len(view.items)
         + (IF view.kind = "yielded" /\ HasReturned(Cur) THEN 1 ELSE 0)
    /\ view.k /= <<>> =>
         /\ Cur.adv - view.base <= view.k[1] - view.take[1]
         /\ Cur.slot /= <<>> => Cur.adv - view.base = view.k[1] - view.take[1]

\* C15: every step operation, and every next() of an adapter, on a live
\* wrapper advances its generator by exactly one suspension point; after k
\* items the generator is k suspension points on; and next() under take(k)
\* advances nothing once k items were asked for.
C15_OneSuspensionPerCall ==
  [][/\ \A w \in Wrappers : OnePerResult(w)
     /\ OnePerItem
     /\ (lastOp'.op \in StepOps \/ (lastOp'.op = "next" /\ view.take /= <<0>>)) =>
          IF Cur.slot = <<>> THEN CurNext.adv = Cur.adv
          ELSE /\ CurNext.adv = Cur.adv + 1
               /\ Surfaced(GenOf(CurNext)[1]) = Surfaced(Cur.slot[1]) + 1
     /\ (lastOp'.op = "next" /\ view.take = <<0>>) =>
          /\ callable' = callable /\ borrower' = borrower
          /\ lastOp'.ret = NoItem]_vars

\* C15 witness: take(4) has returned its four items and then no item; the
\* generator is four suspension points on, not five.
C15_Witness ==
  /\ prog.gen = CharGen /\ view.kind = "all" /\ view.k = <<TestTake>>
  /\ view.take = <<0>> /\ view.ended /\ lastOp = Op("next", NoItem)
  /\ Len(view.items) = TestTake /\ callable.adv = TestTake
  /\ callable.slot /= <<>> /\ Surfaced(callable.slot[1]) = TestTake

\* C16: a poll steps the wrapper exactly once.  Future::poll returns
\* Pending for a step that yields and Ready(f) for the step that returns f;
\* Stream::poll_next returns Ready(Some(y)) for a step that yields y and
\* Ready(None) for the step that returns.  On an empty slot a poll leaves
\* the wrapper as it is and resumes nothing.
C16_PollTranslatesOneStep ==
  [][lastOp'.op \in {"poll", "poll_next"} =>
       IF callable.slot = <<>>
       THEN /\ Frozen(callable, callable')
            /\ lastOp'.ret = IF lastOp'.op = "poll" THEN PollErr ELSE AsyncReady(<<>>)
       ELSE LET due == Expected[Len(callable.log) + 1] IN
            /\ callable'.adv = callable.adv + 1
            /\ Len(callable'.log) = Len(callable.log) + 1
            /\ Surfaced(GenOf(callable')[1]) = Surfaced(callable.slot[1]) + 1
            /\ callable'.slot = <<>> <=> due[1] = "Return"
            /\ lastOp'.ret =
                 IF lastOp'.op = "poll"
                 THEN IF due[1] = "Yield" THEN AsyncPending ELSE AsyncReady(due[2])
                 ELSE IF due[1] = "Yield" THEN AsyncReady(<<due[2]>>)
                      ELSE AsyncReady(<<>>)]_vars

\* C16 witness: polled as a future the test's chain was Pending four times
\* and then Ready(29).
C16_Witness ==
  /\ prog.gen = ChainTestGen /\ chains = <<"double", "tenfold">>
  /\ lastOp = Op("poll", AsyncReady(I32(29)))
  /\ callable.log = <<StYieldUnit, StYieldUnit, StYieldUnit, StYieldUnit,
                      StReturn(I32(29))>>
  /\ callable.slot = <<>>

\* C16, as a stream: Ready(Some(30)) and then Ready(None) for the return.
C16_StreamWitness ==
  /\ prog.gen = ChainTestGen /\ chains = <<"double", "tenfold">>
  /\ lastOp = Op("poll_next", AsyncReady(<<>>))
  /\ Len(callable.log) = 5 /\ callable.log[4] = StYield(I32(30))
  /\ callable.last = StReturn(I32(29)) /\ callable.slot = <<>>

\* The yields of the generators the closures fs make, one after the other,
\* from a first stage with the results out
RECURSIVE ClosureYields(_, _)
ClosureYields(out, fs) ==
  IF fs = <<>> THEN 0
  ELSE Len(ApplyTransform(Head(fs), out[Len(out)][2]).ys)
       + ClosureYields(ChainOutputs(out, Head(fs)), Tail(fs))

\* C17: the final value of A is not a result of the chained wrapper and
\* takes no step: the step in which A completes returns the first result of
\* provided_gen, its first yield or, if it has none, its return; a chain
\* over n yields of A and m of provided_gen is exhausted by n + m + 1 steps.
C17_ChainStepCount ==
  (chains /= <<>> /\ TheGen /= <<>>) =>
    LET base  == Outputs(prog.gen.ys, prog.gen.ret)
        nodes == ChainNodes(TheGen[1])
    IN
    /\ \A i \in DOMAIN callable.log :
         callable.log[i][1] = "Return" => i = Len(Expected)
    /\ HasReturned(callable) =>
         /\ Len(callable.log) = Len(prog.gen.ys) + ClosureYields(base, chains) + 1
         /\ callable.adv = Len(prog.gen.ys) + ClosureYields(base, chains) + 1
    /\ \A j \in DOMAIN nodes :
         LET ea   == Chained(base, SubSeq(chains, 1, j - 1))
             eb   == Chained(base, SubSeq(chains, 1, j))
             B    == ApplyTransform(chains[j], ea[Len(ea)][2])
             seen == Min(Len(callable.log), Len(eb))
         IN /\ Len(eb) = Len(ea) + Len(B.ys)
            /\ seen >= Len(ea) =>
                 /\ nodes[j].b /= <<>>
                 /\ Surfaced(nodes[j].b[1]) = seen - Len(ea) + 1
            /\ (j = Len(nodes) /\ Len(callable.log) >= Len(ea)) =>
                 Matches(callable.log[Len(ea)],
                         IF B.ys /= <<>> THEN StYield(B.ys[1]) ELSE StReturn(B.ret))

\* C17 witness: chained with a closure whose generator only returns, the
\* two yields and the return took three steps, the third returning 4 for
\* A's 3.
C17_Witness ==
  /\ prog.gen = ChainTestGen /\ chains = <<"succ">>
  /\ callable.log = <<StYield(I32(1)), StYield(I32(2)), StReturn(I32(4))>>
  /\ callable.adv = 3 /\ callable.slot = <<>>
  /\ lastOp = Op("resume_with_yield", StReturn(I32(4)))

\* C18: an iter_yielded() adapter over &mut of a live wrapper that has
\* returned None has consumed the final value with the generator: the slot
\* is empty, the step operations that follow return None, and an
\* iter_all() adapter made next returns no item at all.
C18_YieldOnlyConsumesFinal ==
  [][/\ (view.kind = "yielded" /\ view.byRef /\ view.live /\ view.take = <<>>
           /\ view.ended) =>
          /\ Cur.slot = <<>> /\ HasReturned(Cur)
          /\ Cur.log[Len(Cur.log)] = ExpFor[Len(ExpFor)]
          /\ Len(view.items) < Len(Cur.log) - view.base
     /\ (Dropped = Drained /\ lastOp'.op \in StepOps) =>
          lastOp'.ret = None /\ Frozen(Cur, CurNext)
     /\ view.after = Drained =>
          /\ ~view.live /\ view.items = <<>> /\ Cur.slot = <<>>
          /\ lastOp.op = "next" => lastOp.ret = NoItem
     /\ (view.after = Drained /\ lastOp'.op = "next") =>
          lastOp'.ret = NoItem /\ view'.items = <<>>]_vars

\* C18 witness: after iter_yielded() over &mut gave the five chars and
\* None, iter_all() gave None at once: the 99 was never returned.
C18_Witness ==
  /\ prog.gen = CharGen /\ view.kind = "all" /\ view.after = Drained
  /\ view.base = 6 /\ view.items = <<>> /\ view.ended
  /\ lastOp = Op("next", NoItem)
  /\ callable.log[6] = StReturn(U8(99)) /\ callable.slot = <<>>
  /\ callable.last = None

\* The results wrapper w returned are, call by call, those of exp: the
\* i-th is the i-th yield, with its value from resume_with_yield() and as
\* Yield(()) from resume(), and the one after the last yield is the return.
InStep(w, exp) ==
  /\ Len(w.log) <= Len(exp)
  /\ \A i \in DOMAIN w.log :
       IF i < Len(exp)
       THEN w.log[i] \in {exp[i], StYieldUnit} /\ exp[i][1] = "Yield"
       ELSE w.log[i] = exp[i] /\ exp[i][1] = "Return"

\* C19: however resume() and resume_with_yield() are mixed on a wrapper
\* over yields v1..vn and return f, the i-th call that returns a result
\* stands for vi, the (n+1)-th returns Return(f) from either operation and
\* no other does, and resume_with_yield() returns vi itself at its places.
C19_InterleavedViews ==
  /\ InStep(callable, Expected)
  /\ borrower /= <<>> => InStep(borrower[1], BExpected)
  /\ (view.kind = "none" /\ lastOp.op \in StepOps /\ lastOp.ret /= None) =>
       /\ Cur.log /= <<>> /\ lastOp.ret = Cur.log[Len(Cur.log)]
       /\ lastOp.ret /= Panic
       /\ lastOp.op = "resume_with_yield" => lastOp.ret = ExpFor[Len(Cur.log)]
       /\ lastOp.op = "resume" =>
            lastOp.ret = IF Len(Cur.log) < Len(ExpFor) THEN StYieldUnit
                         ELSE ExpFor[Len(ExpFor)]

\* C19 witness: resume_with_yield() got the 1, resume() stood for the 2
\* and resume() got the return, 3.
C19_Witness ==
  /\ prog.gen = ChainTestGen /\ chains = <<>> /\ borrower = <<>>
  /\ callable.log = <<StYield(I32(1)), StYieldUnit, StReturn(I32(3))>>
  /\ lastOp = Op("resume", StReturn(I32(3)))

\* C19, the other way round: resume() stood for the 1, resume_with_yield()
\* got the 2 and the return.
C19_OtherWitness ==
  /\ prog.gen = ChainTestGen /\ chains = <<>> /\ borrower = <<>>
  /\ callable.log = <<StYieldUnit, StYield(I32(2)), StReturn(I32(3))>>
  /\ lastOp = Op("resume_with_yield", StReturn(I32(3)))
====
